---- MODULE Spec2Model ----
(***************************************************************************)
(* Model Lifecycle Manager of the Sales Forecaster API (app/backend.py).   *)
(*                                                                         *)
(* The served state is the three module globals model, model_version and   *)
(* model_metadata.  They are written by load_model / load_local_model on   *)
(* the event-loop thread (startup and GET /model/reload) and by every      *)
(* check_for_new_model thread.  No lock protects them, so each assignment  *)
(* of the source is one step of the model and steps of different threads   *)
(* interleave freely.  Request handlers are coroutines without an await    *)
(* that suspends: they never interleave with each other, only with the     *)
(* background threads.                                                     *)
(***************************************************************************)
EXTENDS Integers, FiniteSets, Sequences, TLC

\* ------------------------------------------------------------------ bounds
MaxVersion == 2      \* registry versions are 1..MaxVersion
MaxThreads == 2      \* check_for_new_model threads that may run at once
MaxSpawned == 1      \* threads followed at once where every endpoint is exercised
MaxOrdinal == 4      \* version ordinals of the registries compare_models is run on

Versions == 1..MaxVersion
Threads  == 1..MaxThreads
EventLoop == MaxThreads + 1     \* writer id of the event-loop thread (load_model)

\* ------------------------------------------------------- values of globals
\* An artifact: what mlflow.pyfunc.load_model / joblib.load returned.  `ver`
\* is the registry version whose bytes were loaded; `by` names the thread
\* whose load produced the value (history only, never read by the program).
NoModel == [kind |-> "none", ver |-> 0, by |-> EventLoop]
RegistryModel(v, w) == [kind |-> "registry", ver |-> v, by |-> w]
LocalModel(w) == [kind |-> "local", ver |-> 0, by |-> w]

\* model_version: None, f"v{version}", "Unknown", "Local File".
NoLabel == [kind |-> "none", ver |-> 0, by |-> EventLoop]
VLabel(v, w) == [kind |-> "v", ver |-> v, by |-> w]
UnknownLabel(w) == [kind |-> "Unknown", ver |-> 0, by |-> w]
LocalLabel(w) == [kind |-> "Local File", ver |-> 0, by |-> w]

\* run_id of registry version v (an opaque id, distinct from the ordinal).
RunIdOf(v) == 100 + v

\* model_metadata: {} / the registry dict / {"source": "local_file"}.
\* version = 0 and run_id = 0 stand for an absent key.
NoMetadata == [version |-> 0, run_id |-> 0, source |-> "unknown", by |-> EventLoop]
RegistryMetadata(v, w) ==
    [version |-> v, run_id |-> RunIdOf(v), source |-> "DagsHub MLflow Registry", by |-> w]
LocalMetadata(w) == [version |-> 0, run_id |-> 0, source |-> "local_file", by |-> w]

\* str(x) of a version (None when the key is absent).
Str(v) == IF v = 0 THEN [none |-> TRUE, digits |-> 0] ELSE [none |-> FALSE, digits |-> v]

\* ------------------------------------------------------------------- state
VARIABLES
    model, model_version, model_metadata,   \* the served state (globals)
    AUTO_RELOAD_ENABLED,                    \* env AUTO_RELOAD_MODEL
    mlflow_uri,                             \* env MLFLOW_TRACKING_URI: "unset" | "http" | "file"
    credentials,                            \* MLFLOW_TRACKING_USERNAME and _PASSWORD both set
    local_file,                             \* ../models/trained/model.pkl exists
    registry,                               \* [up, prod, versions, metrics, alias]: reachable,
                                            \* Production stage's ordinal (0: none), registered
                                            \* ordinals, their runs' metrics, the ordinal under
                                            \* the alias "Production" (0: alias not set)
    pc,                                     \* position of the event-loop thread
    frame,                                  \* locals of the running handler
    resp,                                   \* the response of the handler that just finished
    threads,                                \* per check_for_new_model thread: pc and locals
    script                                  \* a run of scripts/rollback.py: pc, arguments, locals

served == <<model, model_version, model_metadata>>
config == <<AUTO_RELOAD_ENABLED, mlflow_uri, credentials, local_file>>
vars == <<model, model_version, model_metadata, AUTO_RELOAD_ENABLED, mlflow_uri,
          credentials, local_file, registry, pc, frame, resp, threads, script>>

UriSet == mlflow_uri # "unset"
UriHttp == mlflow_uri = "http"

\* ---------------------------------------------------------------- requests
\* PredictionRequest: a JSON body is a function from the fields it carries to
\* their values; pydantic requires every field (Field(...)) and its range.
Fields == {"advertising_spend", "promotions", "day_of_week", "month", "is_weekend"}

Lo(f) == IF f = "month" THEN 1 ELSE 0

Hi(f) ==
    CASE f = "advertising_spend" -> 10000
      [] f = "promotions" -> 1
      [] f = "day_of_week" -> 6
      [] f = "month" -> 12
      [] f = "is_weekend" -> 1

\* PredictionRequest with the le= bounds left out of every Field.
PredictionRequest_without_le(r) ==
    /\ DOMAIN r = Fields
    /\ \A f \in Fields : Lo(f) <= r[f]

\* What FastAPI's validation of the body against PredictionRequest accepts.
PredictionRequest(r) ==
    /\ DOMAIN r = Fields
    /\ \A f \in Fields : Lo(f) <= r[f] /\ r[f] <= Hi(f)

LowRequest == [f \in Fields |-> Lo(f)]
HighRequest == [f \in Fields |-> Hi(f)]
Without(r, g) == [f \in (DOMAIN r) \ {g} |-> r[f]]
With(r, g, x) == [f \in DOMAIN r |-> IF f = g THEN x ELSE r[f]]
NoRequest == [f \in {} |-> 0]

\* The bodies sent: the two extreme valid ones, and each of them with one field
\* dropped, one below its range, one above it.
Requests ==
    {LowRequest, HighRequest}
    \cup {Without(LowRequest, g) : g \in Fields}
    \cup {With(LowRequest, g, Lo(g) - 1) : g \in Fields}
    \cup {With(HighRequest, g, Hi(g) + 1) : g \in Fields}

\* The bodies sent while the service runs concurrently: one valid, one not.
SampleRequests == {LowRequest, Without(LowRequest, "month")}

\* Values the opaque artifact may return from predict(), around the band's ends.
PredictedValues == {80, 81, 199, 200}
SamplePredictions == {81}

\* The band of line 312 with its ends included: 80 <= prediction <= 200.
Confidence_inclusive(v) == IF 80 <= v /\ v <= 200 THEN 85 ELSE 70

\* confidence = 0.85 if 80 < prediction < 200 else 0.70, in hundredths.
Confidence(v) == IF 80 < v /\ v < 200 THEN 85 ELSE 70

\* ------------------------------------------------------- handler locals
NoFrame ==
    [caller |-> "none", latest |-> 0, req |-> NoRequest, used |-> NoModel,
     prediction |-> 0, quiet |-> FALSE, before |-> <<NoModel, NoLabel, NoMetadata>>]

\* A response without a JSON body of compare_models.
NoReport == [k \in {} |-> 0]

NoResponse ==
    [endpoint |-> "none", status |-> 0, model_version |-> NoLabel, used |-> NoModel,
     invoked |-> FALSE, prediction |-> 0, confidence |-> 0, req |-> NoRequest,
     report |-> NoReport]

OffThread == [pc |-> "off", latest |-> 0, new_model |-> NoModel]
Asleep == [OffThread EXCEPT !.pc = "sleep"]

\* A step of the environment or of another writer while a manual reload runs:
\* the reload is no longer comparable with a cycle run alone.
Disturb == frame' = [frame EXCEPT !.quiet = FALSE, !.before = NoFrame.before]

\* No run of scripts/rollback.py.  result is the value rollback_to_version
\* returned ("none" before it returns), exit the script's exit status (-1
\* before it exits), current the version found under the alias (0: None),
\* stack the frames of the callers of a nested rollback_to_version.
NoScript ==
    [pc |-> "off", version |-> 0, confirm |-> FALSE, current |-> 0,
     result |-> "none", exit |-> 0 - 1, stack |-> << >>]

\* ------------------------------------------------------ registry content
\* A run's metrics: mlflow's run.data.metrics, a dict from metric names to
\* values.  NoMetrics is the empty dict.
NoMetrics == [k \in {} |-> 0]

\* The metrics logged with the runs of versions 1..MaxVersion.
SampleMetrics ==
    [v \in Versions |-> ("mae" :> 10 - v) @@ ("rmse" :> 12 - v) @@ ("r2_score" :> v)]

\* ---------------------------------------------------------------- Init
\* The process has been configured and the startup event is about to call
\* load_model(); the globals hold their module-level values (lines 57-59).
Init ==
    /\ model = NoModel
    /\ model_version = NoLabel
    /\ model_metadata = NoMetadata
    /\ AUTO_RELOAD_ENABLED \in BOOLEAN
    /\ mlflow_uri \in {"unset", "http", "file"}
    /\ credentials \in BOOLEAN
    /\ local_file \in BOOLEAN
    /\ registry \in {[up |-> u, prod |-> p, versions |-> Versions, metrics |-> SampleMetrics,
                       alias |-> 0] :
                        u \in BOOLEAN, p \in 0..MaxVersion}
    /\ pc = "load_model"
    /\ frame = [NoFrame EXCEPT !.caller = "startup"]
    /\ resp = NoResponse
    /\ threads = [t \in Threads |-> OffThread]
    /\ script = NoScript

\* ------------------------------------------------------------ environment
\* The registry becomes unreachable / reachable again.
registry_outage ==
    /\ registry' = [registry EXCEPT !.up = ~registry.up]
    /\ Disturb
    /\ UNCHANGED <<served, config, script, pc, resp, threads>>

\* The Production stage moves to version v: a promotion with the previous
\* version archived (.github/scripts/register_model.py, lines 47-54), any other
\* stage transition made in the registry, or the stage is left empty (v = 0).
registry_transition(v) ==
    /\ v # registry.prod
    /\ registry' = [registry EXCEPT !.prod = v]
    /\ Disturb
    /\ UNCHANGED <<served, config, script, pc, resp, threads>>

\* ------------------------------------------------- load_model (event loop)
\* Lines 166-170 and 211-214: registry mode needs the URI and both credentials,
\* otherwise the local file is loaded.
load_model ==
    /\ pc = "load_model"
    /\ pc' = IF UriSet /\ credentials THEN "load_model_artifact" ELSE "load_local_model"
    /\ UNCHANGED <<served, config, script, registry, frame, resp, threads>>

\* Line 184: model = mlflow.pyfunc.load_model("models:/sales-forecaster/Production").
\* It raises when the registry is unreachable or holds no Production version
\* (lines 207-210: fall back to the local file).
load_model_artifact ==
    /\ pc = "load_model_artifact"
    /\ IF registry.up /\ registry.prod # 0
         THEN /\ model' = RegistryModel(registry.prod, EventLoop)
              /\ pc' = "load_model_versions"
         ELSE /\ pc' = "load_local_model"
              /\ UNCHANGED model
    /\ UNCHANGED <<model_version, model_metadata, config, script, registry, frame, resp, threads>>

\* Lines 187-190 and 203-205: client.get_latest_versions(stages=["Production"]).
load_model_versions ==
    /\ pc = "load_model_versions"
    /\ IF ~registry.up
         THEN /\ pc' = "load_local_model"
              /\ UNCHANGED <<model_version, frame>>
         ELSE IF registry.prod # 0
         THEN /\ frame' = [frame EXCEPT !.latest = registry.prod]
              /\ pc' = "load_model_set_version"
              /\ UNCHANGED model_version
         ELSE /\ model_version' = UnknownLabel(EventLoop)
              /\ pc' = "load_model_start_thread"
              /\ UNCHANGED frame
    /\ UNCHANGED <<model, model_metadata, config, script, registry, resp, threads>>

\* Line 192: model_version = f"v{latest.version}".
load_model_set_version ==
    /\ pc = "load_model_set_version"
    /\ model_version' = VLabel(frame.latest, EventLoop)
    /\ pc' = "load_model_set_metadata"
    /\ UNCHANGED <<model, model_metadata, config, script, registry, frame, resp, threads>>

\* Lines 193-202: model_metadata = {...}.
load_model_set_metadata ==
    /\ pc = "load_model_set_metadata"
    /\ model_metadata' = RegistryMetadata(frame.latest, EventLoop)
    /\ frame' = [frame EXCEPT !.latest = 0]
    /\ pc' = "load_model_start_thread"
    /\ UNCHANGED <<model, model_version, config, script, registry, resp, threads>>

\* load_local_model without the else branch of lines 239-241: a missing file
\* leaves the global as it is.
load_local_model_keeping ==
    /\ pc = "load_local_model"
    /\ IF local_file
         THEN /\ model' = LocalModel(EventLoop)
              /\ pc' = "load_local_model_set_version"
         ELSE /\ UNCHANGED model
              /\ pc' = "load_model_start_thread"
    /\ UNCHANGED <<model_version, model_metadata, config, script, registry, frame, resp, threads>>

\* Lines 228-241, first assignment: model = joblib.load(path), or model = None
\* when the file does not exist.
load_local_model ==
    /\ pc = "load_local_model"
    /\ IF local_file
         THEN /\ model' = LocalModel(EventLoop)
              /\ pc' = "load_local_model_set_version"
         ELSE /\ model' = NoModel
              /\ pc' = "load_model_start_thread"
    /\ UNCHANGED <<model_version, model_metadata, config, script, registry, frame, resp, threads>>

\* Line 236: model_version = "Local File".
load_local_model_set_version ==
    /\ pc = "load_local_model_set_version"
    /\ model_version' = LocalLabel(EventLoop)
    /\ pc' = "load_local_model_set_metadata"
    /\ UNCHANGED <<model, model_metadata, config, script, registry, frame, resp, threads>>

\* Lines 237-238: model_metadata = {"source": "local_file"}.
load_local_model_set_metadata ==
    /\ pc = "load_local_model_set_metadata"
    /\ model_metadata' = LocalMetadata(EventLoop)
    /\ pc' = "load_model_start_thread"
    /\ UNCHANGED <<model, model_version, config, script, registry, frame, resp, threads>>

FreeThreads == {t \in Threads : threads[t].pc = "off"}
NextThread == CHOOSE t \in FreeThreads : \A u \in FreeThreads : t <= u

\* Line 217: if model and AUTO_RELOAD_ENABLED and mlflow_uri.
StartsThread == model.kind # "none" /\ AUTO_RELOAD_ENABLED /\ UriSet

\* Lines 216-225: start a check_for_new_model thread, then return to the
\* caller (the startup event, or reload_model at line 588).  A run that would
\* have more than `limit` threads alive is not followed further.
load_model_start_thread(limit) ==
    /\ pc = "load_model_start_thread"
    /\ IF StartsThread
         THEN /\ Cardinality(Threads \ FreeThreads) < limit
              /\ threads' = [threads EXCEPT ![NextThread] = Asleep]
         ELSE UNCHANGED threads
    /\ pc' = IF frame.caller = "reload" THEN "reload_model_return" ELSE "done"
    /\ UNCHANGED <<served, config, script, registry, frame, resp>>

\* ------------------------------------------------------ request handlers
\* GET /model/reload, lines 582-586: await load_model().
reload_model ==
    /\ pc = "idle"
    /\ pc' = "load_model"
    /\ frame' = [NoFrame EXCEPT !.caller = "reload", !.quiet = TRUE, !.before = served]
    /\ UNCHANGED <<served, config, script, registry, resp, threads>>

\* Lines 588-593: the response carries the global model_version.
reload_model_return ==
    /\ pc = "reload_model_return"
    /\ resp' = [NoResponse EXCEPT !.endpoint = "reload", !.status = 200,
                                  !.model_version = model_version]
    /\ pc' = "done"
    /\ UNCHANGED <<served, config, script, registry, frame, threads>>

\* predict without the readiness check of lines 292-296.
predict_without_readiness_check(r) ==
    /\ pc = "idle"
    /\ IF ~PredictionRequest(r)
         THEN /\ resp' = [NoResponse EXCEPT !.endpoint = "predict", !.status = 422, !.req = r]
              /\ pc' = "done"
              /\ UNCHANGED frame
         ELSE /\ frame' = [NoFrame EXCEPT !.caller = "predict", !.req = r]
              /\ pc' = "predict_invoke"
              /\ UNCHANGED resp
    /\ UNCHANGED <<served, config, script, registry, threads>>

\* POST /predict: FastAPI validates the body against PredictionRequest before
\* the handler runs (422); lines 292-296 answer 503 while model is None.
predict(r) ==
    /\ pc = "idle"
    /\ IF ~PredictionRequest(r)
         THEN /\ resp' = [NoResponse EXCEPT !.endpoint = "predict", !.status = 422, !.req = r]
              /\ pc' = "done"
              /\ UNCHANGED frame
         ELSE IF model.kind = "none"
         THEN /\ resp' = [NoResponse EXCEPT !.endpoint = "predict", !.status = 503, !.req = r]
              /\ pc' = "done"
              /\ UNCHANGED frame
         ELSE /\ frame' = [NoFrame EXCEPT !.caller = "predict", !.req = r]
              /\ pc' = "predict_invoke"
              /\ UNCHANGED resp
    /\ UNCHANGED <<served, config, script, registry, threads>>

\* predict_invoke whose except block also drops the artifact that raised:
\* model = None before the 500 is raised.
predict_invoke_dropping(V) ==
    /\ pc = "predict_invoke"
    /\ \/ \E v \in V :
            /\ frame' = [frame EXCEPT !.used = model, !.prediction = v]
            /\ pc' = "predict_return"
            /\ UNCHANGED <<resp, model>>
       \/ /\ resp' = [NoResponse EXCEPT !.endpoint = "predict", !.status = 500,
                                        !.req = frame.req, !.used = model, !.invoked = TRUE]
          /\ pc' = "done"
          /\ model' = NoModel
          /\ UNCHANGED frame
    /\ UNCHANGED <<model_version, model_metadata, config, script, registry, threads>>

\* Lines 298-312 and 323-328: model.predict(input_data)[0] on the artifact the
\* global names now; the artifact returns a value (one of V) or raises (500).
predict_invoke(V) ==
    /\ pc = "predict_invoke"
    /\ \/ \E v \in V :
            /\ frame' = [frame EXCEPT !.used = model, !.prediction = v]
            /\ pc' = "predict_return"
            /\ UNCHANGED resp
       \/ /\ resp' = [NoResponse EXCEPT !.endpoint = "predict", !.status = 500,
                                        !.req = frame.req, !.used = model, !.invoked = TRUE]
          /\ pc' = "done"
          /\ UNCHANGED frame
    /\ UNCHANGED <<served, config, script, registry, threads>>

\* Lines 314-321: PredictionResponse(..., model_version=model_version, ...).
predict_return ==
    /\ pc = "predict_return"
    /\ resp' = [endpoint |-> "predict", status |-> 200, model_version |-> model_version,
                used |-> frame.used, invoked |-> TRUE, prediction |-> frame.prediction,
                confidence |-> Confidence(frame.prediction), req |-> frame.req,
                report |-> NoReport]
    /\ pc' = "done"
    /\ UNCHANGED <<served, config, script, registry, frame, threads>>

\* health_check that also probes the registry before it answers.
health_check_probing_registry ==
    /\ pc = "idle"
    /\ IF model.kind = "none" \/ ~registry.up
         THEN /\ resp' = [NoResponse EXCEPT !.endpoint = "health", !.status = 503]
              /\ pc' = "done"
              /\ UNCHANGED frame
         ELSE /\ frame' = [NoFrame EXCEPT !.caller = "health", !.used = model]
              /\ pc' = "health_check_return"
              /\ UNCHANGED resp
    /\ UNCHANGED <<served, config, script, registry, threads>>

\* GET /health, lines 271-275: 503 while model is None.
health_check ==
    /\ pc = "idle"
    /\ IF model.kind = "none"
         THEN /\ resp' = [NoResponse EXCEPT !.endpoint = "health", !.status = 503]
              /\ pc' = "done"
              /\ UNCHANGED frame
         ELSE /\ frame' = [NoFrame EXCEPT !.caller = "health", !.used = model]
              /\ pc' = "health_check_return"
              /\ UNCHANGED resp
    /\ UNCHANGED <<served, config, script, registry, threads>>

\* Lines 277-282: HealthResponse(status="healthy", model_loaded=True,
\* model_version=model_version).
health_check_return ==
    /\ pc = "health_check_return"
    /\ resp' = [NoResponse EXCEPT !.endpoint = "health", !.status = 200,
                                  !.model_version = model_version, !.used = frame.used]
    /\ pc' = "done"
    /\ UNCHANGED <<served, config, script, registry, frame, threads>>

\* The handler (or the startup event) returns; the event loop is free again.
handler_return ==
    /\ pc = "done"
    /\ pc' = "idle"
    /\ frame' = NoFrame
    /\ resp' = NoResponse
    /\ UNCHANGED <<served, config, script, registry, threads>>

\* ------------------------------------- check_for_new_model (thread t)
\* The comparison of line 126 written as "is newer": int(latest) > int(current).
VersionNewer(latest, current) == latest > current

\* Is the Production version another one than the served one?  Line 126:
\* str(latest_version.version) != str(current_version).
VersionChanged(latest, current) == Str(latest) # Str(current)

\* The tick without the check of lines 109-111: it goes on to the registry
\* whether or not the served metadata names a version.
check_for_new_model_without_version_check(t) ==
    /\ threads[t].pc = "sleep"
    /\ IF UriHttp
         THEN threads' = [threads EXCEPT ![t].pc = "query"]
         ELSE UNCHANGED threads
    /\ UNCHANGED <<served, config, script, registry, pc, frame, resp>>

\* The tick whose URI check of lines 105-107 accepts any URI that is set, not
\* only an http one.
check_for_new_model_any_uri(t) ==
    /\ threads[t].pc = "sleep"
    /\ IF UriSet /\ model_metadata.version # 0
         THEN threads' = [threads EXCEPT ![t].pc = "query"]
         ELSE UNCHANGED threads
    /\ UNCHANGED <<served, config, script, registry, pc, frame, resp>>

\* Lines 100-111: the sleep ends; skip the tick unless the URI is an http one
\* and the served metadata names a version.
check_for_new_model(t) ==
    /\ threads[t].pc = "sleep"
    /\ IF UriHttp /\ model_metadata.version # 0
         THEN threads' = [threads EXCEPT ![t].pc = "query"]
         ELSE UNCHANGED threads
    /\ UNCHANGED <<served, config, script, registry, pc, frame, resp>>

\* The registry query outside the try block of lines 113-155: a failed query
\* ends the thread.
check_for_new_model_versions_uncaught(t) ==
    /\ threads[t].pc = "query"
    /\ threads' = [threads EXCEPT ![t] =
           IF ~registry.up THEN OffThread
           ELSE IF registry.prod = 0 THEN Asleep
           ELSE [Asleep EXCEPT !.pc = "compare", !.latest = registry.prod]]
    /\ UNCHANGED <<served, config, script, registry, pc, frame, resp>>

\* Lines 113-122: client.get_latest_versions(stages=["Production"]); an empty
\* answer ends the tick, a failure is caught at line 154.
check_for_new_model_versions(t) ==
    /\ threads[t].pc = "query"
    /\ threads' = [threads EXCEPT ![t] =
           IF ~registry.up THEN [Asleep EXCEPT !.pc = "check_error"]
           ELSE IF registry.prod = 0 THEN Asleep
           ELSE [Asleep EXCEPT !.pc = "compare", !.latest = registry.prod]]
    /\ UNCHANGED <<served, config, script, registry, pc, frame, resp>>

\* Lines 123-130: current_version = model_metadata.get("version"); compare.
check_for_new_model_compare(t) ==
    /\ threads[t].pc = "compare"
    /\ threads' = [threads EXCEPT ![t] =
           IF VersionChanged(threads[t].latest, model_metadata.version)
             THEN [threads[t] EXCEPT !.pc = "load"]
             ELSE Asleep]
    /\ UNCHANGED <<served, config, script, registry, pc, frame, resp>>

\* The load of lines 133-135 assigned straight to the global, so that a failed
\* load clears it: model = None on the way to the except block.
check_for_new_model_load_clearing(t) ==
    /\ threads[t].pc = "load"
    /\ IF registry.up /\ registry.prod # 0
         THEN /\ threads' = [threads EXCEPT ![t].pc = "set_model",
                                            ![t].new_model = RegistryModel(registry.prod, t)]
              /\ UNCHANGED model
         ELSE /\ threads' = [threads EXCEPT ![t] = [Asleep EXCEPT !.pc = "reload_failed"]]
              /\ model' = NoModel
    /\ UNCHANGED <<model_version, model_metadata, config, script, registry, pc, frame, resp>>

\* Lines 133-135: new_model = mlflow.pyfunc.load_model(
\* "models:/sales-forecaster/Production"); a failure is caught at line 151.
check_for_new_model_load(t) ==
    /\ threads[t].pc = "load"
    /\ threads' = [threads EXCEPT ![t] =
           IF registry.up /\ registry.prod # 0
             THEN [threads[t] EXCEPT !.pc = "set_model",
                                     !.new_model = RegistryModel(registry.prod, t)]
             ELSE [Asleep EXCEPT !.pc = "reload_failed"]]
    /\ UNCHANGED <<served, config, script, registry, pc, frame, resp>>

\* Line 138: model = new_model.
check_for_new_model_set_model(t) ==
    /\ threads[t].pc = "set_model"
    /\ model' = threads[t].new_model
    /\ threads' = [threads EXCEPT ![t].pc = "set_version", ![t].new_model = NoModel]
    /\ Disturb
    /\ UNCHANGED <<model_version, model_metadata, config, script, registry, pc, resp>>

\* Line 139: model_version = f"v{latest_version.version}".
check_for_new_model_set_version(t) ==
    /\ threads[t].pc = "set_version"
    /\ model_version' = VLabel(threads[t].latest, t)
    /\ threads' = [threads EXCEPT ![t].pc = "set_metadata"]
    /\ Disturb
    /\ UNCHANGED <<model, model_metadata, config, script, registry, pc, resp>>

\* Lines 140-149: model_metadata = {...}; the tick is over.
check_for_new_model_set_metadata(t) ==
    /\ threads[t].pc = "set_metadata"
    /\ model_metadata' = RegistryMetadata(threads[t].latest, t)
    /\ threads' = [threads EXCEPT ![t] = Asleep]
    /\ Disturb
    /\ UNCHANGED <<model, model_version, config, script, registry, pc, resp>>

\* The except blocks of lines 151-155 placed around the while loop instead of
\* inside it: the first exception ends the thread.
check_for_new_model_except_exiting(t) ==
    /\ threads[t].pc \in {"reload_failed", "check_error"}
    /\ threads' = [threads EXCEPT ![t] = OffThread]
    /\ UNCHANGED <<served, config, script, registry, pc, frame, resp>>

\* Lines 151-152 and 154-155: the except blocks log the failure; the loop goes
\* on to the next sleep.
check_for_new_model_except(t) ==
    /\ threads[t].pc \in {"reload_failed", "check_error"}
    /\ threads' = [threads EXCEPT ![t] = Asleep]
    /\ UNCHANGED <<served, config, script, registry, pc, frame, resp>>

\* ------------------------------------------- compare_models (event loop)
\* The sort of line 482 without reverse=True: lowest ordinal first.
RECURSIVE sorted_versions_ascending(_)
sorted_versions_ascending(S) ==
    IF S = {} THEN << >>
    ELSE LET low == CHOOSE v \in S : \A u \in S : v <= u
         IN  <<low>> \o sorted_versions_ascending(S \ {low})

\* Line 482: sorted(all_versions, key=lambda x: int(x.version), reverse=True).
RECURSIVE sorted_versions(_)
sorted_versions(S) ==
    IF S = {} THEN << >>
    ELSE LET top == CHOOSE v \in S : \A u \in S : u <= v
         IN  <<top>> \o sorted_versions(S \ {top})

\* The filter of line 485 keeping every version whatever its stage, so that
\* "current" is the highest registered ordinal.
prod_versions_latest(reg, sorted) == sorted

\* Line 485: the versions whose current_stage is "Production", in sorted order.
prod_versions(reg, sorted) == SelectSeq(sorted, LAMBDA v : v = reg.prod)

\* The search of lines 497-502 ending on the current version itself when no
\* lower ordinal is registered.
RECURSIVE previous_version_or_current(_, _)
previous_version_or_current(sorted, current) ==
    IF sorted = << >> THEN current
    ELSE IF Head(sorted) < current THEN Head(sorted)
    ELSE previous_version_or_current(Tail(sorted), current)

\* Lines 497-502: the first version of the sorted list whose ordinal is below
\* the current one; 0 stands for None.
RECURSIVE previous_version(_, _)
previous_version(sorted, current) ==
    IF sorted = << >> THEN 0
    ELSE IF Head(sorted) < current THEN Head(sorted)
    ELSE previous_version(Tail(sorted), current)

\* metrics.get(k, metrics.get(alt, 0)) of lines 509-516.
MetricGet(metrics, k, alt) ==
    IF k \in DOMAIN metrics THEN metrics[k]
    ELSE IF alt \in DOMAIN metrics THEN metrics[alt]
    ELSE 0

\* The three values read from a run's metrics.
MetricsOf(metrics) ==
    [mae |-> MetricGet(metrics, "mae", "test_mae"),
     rmse |-> MetricGet(metrics, "rmse", "test_rmse"),
     r2_score |-> MetricGet(metrics, "r2_score", "test_r2")]

\* Lines 519-521 with a previous value of zero reported as a change of 100%.
Delta_from_zero(a, b, previous) ==
    IF previous > 0 THEN [num |-> (a - b) * 100, den |-> previous]
    ELSE [num |-> 100, den |-> 1]

\* Lines 519-521: ((a - b) / previous * 100) if previous > 0 else 0, kept as
\* the exact fraction num / den (den > 0).
Delta(a, b, previous) ==
    IF previous > 0 THEN [num |-> (a - b) * 100, den |-> previous]
    ELSE [num |-> 0, den |-> 1]

\* Lines 544-546: round(delta, 2), in hundredths of a percent; Python rounds a
\* tie to the even neighbour.
round2(delta) ==
    LET n == delta.num * 100
        q == n \div delta.den
        r == n % delta.den
    IN  IF 2 * r > delta.den THEN q + 1
        ELSE IF 2 * r < delta.den THEN q
        ELSE IF q % 2 = 0 THEN q ELSE q + 1

\* Lines 549-551: the verdict on the delta as computed, before rounding.
improvement(delta) ==
    IF delta.num > 0 THEN "improved"
    ELSE IF delta.num < 0 THEN "degraded"
    ELSE "unchanged"

\* The version block of lines 525-533, 534-542 and 564-572.
VersionBlock(v, m) == [version |-> v, run_id |-> RunIdOf(v), metrics |-> m]

\* Lines 476-572: the dict compare_models returns for a reachable registry.
compare_models_report(reg) ==
    LET sorted == sorted_versions(reg.versions)
        prods == prod_versions(reg, sorted)
    IN  IF Len(sorted) < 1
          THEN [error |-> "No model versions found", has_comparison |-> FALSE]
        ELSE IF prods = << >>
          THEN [error |-> "No Production model found", has_comparison |-> FALSE]
        ELSE LET current == prods[1]
                 previous == previous_version(sorted, current)
                 cur == MetricsOf(reg.metrics[current])
             IN  IF previous # 0
                   THEN LET prev == MetricsOf(reg.metrics[previous])
                            mae_delta == Delta(prev.mae, cur.mae, prev.mae)
                            rmse_delta == Delta(prev.rmse, cur.rmse, prev.rmse)
                            r2_delta == Delta(cur.r2_score, prev.r2_score, prev.r2_score)
                        IN  [has_comparison |-> TRUE,
                             current_version |-> VersionBlock(current, cur),
                             previous_version |-> VersionBlock(previous, prev),
                             deltas |-> [mae_percent |-> round2(mae_delta),
                                         rmse_percent |-> round2(rmse_delta),
                                         r2_percent |-> round2(r2_delta)],
                             improvement |-> [mae |-> improvement(mae_delta),
                                              rmse |-> improvement(rmse_delta),
                                              r2 |-> improvement(r2_delta)]]
                   ELSE [has_comparison |-> FALSE,
                         message |-> "This is the first model version",
                         current_version |-> VersionBlock(current, cur)]

\* compare_models taking "current" from the served metadata instead of the
\* registry's Production stage.
compare_models_of_served ==
    /\ pc = "idle"
    /\ resp' = IF model.kind = "none"
                 THEN [NoResponse EXCEPT !.endpoint = "compare", !.status = 503]
               ELSE IF ~registry.up
                 THEN [NoResponse EXCEPT !.endpoint = "compare", !.status = 200,
                          !.report = [error |-> "registry unreachable",
                                      has_comparison |-> FALSE]]
               ELSE [NoResponse EXCEPT !.endpoint = "compare", !.status = 200,
                        !.report = compare_models_report(
                                       [registry EXCEPT !.prod = model_metadata.version])]
    /\ pc' = "done"
    /\ UNCHANGED <<served, config, script, registry, frame, threads>>

\* GET /model/compare, lines 459-579: 503 while model is None; a registry
\* call that raises is answered with an error dict (lines 574-579).
compare_models ==
    /\ pc = "idle"
    /\ resp' = IF model.kind = "none"
                 THEN [NoResponse EXCEPT !.endpoint = "compare", !.status = 503]
               ELSE IF ~registry.up
                 THEN [NoResponse EXCEPT !.endpoint = "compare", !.status = 200,
                          !.report = [error |-> "registry unreachable",
                                      has_comparison |-> FALSE]]
               ELSE [NoResponse EXCEPT !.endpoint = "compare", !.status = 200,
                        !.report = compare_models_report(registry)]
    /\ pc' = "done"
    /\ UNCHANGED <<served, config, script, registry, frame, threads>>

\* ------------------------------------------- scripts/rollback.py (a run)
\* The registry answers a call about version v of the model: it is reachable
\* and v is registered.
VersionFound(v) == registry.up /\ v \in registry.versions

\* main that goes on to the rollback whether or not --confirm was given.
main_without_confirm ==
    /\ script.pc = "main"
    /\ script' = [script EXCEPT !.pc = "get_model_version"]
    /\ UNCHANGED <<served, config, registry, pc, frame, resp, threads>>

\* main, lines 126-144: without --confirm the script returns 1 before any
\* client exists; otherwise it calls rollback_to_version(args.version).
main ==
    /\ script.pc = "main"
    /\ script' = IF ~script.confirm
                   THEN [script EXCEPT !.pc = "exited", !.exit = 1]
                   ELSE [script EXCEPT !.pc = "get_model_version"]
    /\ UNCHANGED <<served, config, registry, pc, frame, resp, threads>>

\* Step 1, lines 39-47: client.get_model_version(name, version); any exception
\* makes rollback_to_version return False.
rollback_to_version ==
    /\ script.pc = "get_model_version"
    /\ script' = IF VersionFound(script.version)
                   THEN [script EXCEPT !.pc = "get_model_version_by_alias"]
                   ELSE [script EXCEPT !.pc = "return", !.result = "False"]
    /\ UNCHANGED <<served, config, registry, pc, frame, resp, threads>>

\* Step 2, lines 50-57: current = client.get_model_version_by_alias(name,
\* "Production"), or None when the call raises.
rollback_to_version_current ==
    /\ script.pc = "get_model_version_by_alias"
    /\ script' = [script EXCEPT !.pc = "set_registered_model_alias",
                                !.current = IF registry.up THEN registry.alias ELSE 0]
    /\ UNCHANGED <<served, config, registry, pc, frame, resp, threads>>

\* Step 3, lines 61-70: client.set_registered_model_alias(name,
\* alias="Production", version=str(version)); an exception makes
\* rollback_to_version return False.
rollback_to_version_set_alias ==
    /\ script.pc = "set_registered_model_alias"
    /\ IF VersionFound(script.version)
         THEN /\ registry' = [registry EXCEPT !.alias = script.version]
              /\ script' = [script EXCEPT !.pc = "verify_health"]
         ELSE /\ script' = [script EXCEPT !.pc = "return", !.result = "False"]
              /\ UNCHANGED registry
    /\ UNCHANGED <<served, config, pc, frame, resp, threads>>

\* verify_health, lines 94-110: three logged pauses, then return True.
verify_health == TRUE

\* Step 4, lines 74-82: on a failed health check rollback_to_version calls
\* itself with current.version (when there is one) and returns False.
rollback_to_version_verify ==
    /\ script.pc = "verify_health"
    /\ script' = IF verify_health
                   THEN [script EXCEPT !.pc = "log_rollback"]
                 ELSE IF script.current # 0
                   THEN [script EXCEPT !.pc = "get_model_version",
                                       !.version = script.current,
                                       !.current = 0,
                                       !.stack = <<[version |-> script.version,
                                                    current |-> script.current]>> \o @]
                 ELSE [script EXCEPT !.pc = "return", !.result = "False"]
    /\ UNCHANGED <<served, config, registry, pc, frame, resp, threads>>

\* Step 5, lines 85-92 and 112-123: log_rollback records a run (a failure is
\* caught and logged); rollback_to_version returns True.
rollback_to_version_log ==
    /\ script.pc = "log_rollback"
    /\ script' = [script EXCEPT !.pc = "return", !.result = "True"]
    /\ UNCHANGED <<served, config, registry, pc, frame, resp, threads>>

\* rollback_to_version returns: to the call of line 81, whose caller then
\* returns False (line 82), or to main, which exits with 0 if success else 1
\* (lines 144-150).
main_return ==
    /\ script.pc = "return"
    /\ script' = IF script.stack # << >>
                   THEN [script EXCEPT !.version = Head(script.stack).version,
                                       !.current = Head(script.stack).current,
                                       !.stack = Tail(script.stack),
                                       !.result = "False"]
                   ELSE [script EXCEPT !.pc = "exited",
                                       !.exit = IF script.result = "True" THEN 0 ELSE 1]
    /\ UNCHANGED <<served, config, registry, pc, frame, resp, threads>>

\* ------------------------------------------------------------------ Next
Environment ==
    \/ registry_outage
    \/ \E v \in 0..MaxVersion : registry_transition(v)

Loader(limit) ==
    \/ load_model
    \/ load_model_artifact
    \/ load_model_versions
    \/ load_model_set_version
    \/ load_model_set_metadata
    \/ load_local_model
    \/ load_local_model_set_version
    \/ load_local_model_set_metadata
    \/ load_model_start_thread(limit)

Scheduler ==
    \/ \E t \in Threads : check_for_new_model(t)
    \/ \E t \in Threads : check_for_new_model_versions(t)
    \/ \E t \in Threads : check_for_new_model_compare(t)
    \/ \E t \in Threads : check_for_new_model_load(t)
    \/ \E t \in Threads : check_for_new_model_set_model(t)
    \/ \E t \in Threads : check_for_new_model_set_version(t)
    \/ \E t \in Threads : check_for_new_model_set_metadata(t)
    \/ \E t \in Threads : check_for_new_model_except(t)

\* The whole service: startup, the polling threads, predictions, health checks
\* and manual reloads, against a registry that changes at any time.
Next ==
    \/ Environment
    \/ Loader(MaxSpawned)
    \/ Scheduler
    \/ reload_model
    \/ reload_model_return
    \/ \E r \in SampleRequests : predict(r)
    \/ predict_invoke(SamplePredictions)
    \/ predict_return
    \/ health_check
    \/ health_check_return
    \/ compare_models
    \/ handler_return

Spec == Init /\ [][Next]_vars

\* The service left to its polling thread: startup, the polling thread,
\* predictions over every request body and predicted value, health checks; no
\* manual reload is requested.
NextPolling ==
    \/ Environment
    \/ Loader(MaxThreads)
    \/ Scheduler
    \/ \E r \in Requests : predict(r)
    \/ predict_invoke(PredictedValues)
    \/ predict_return
    \/ health_check
    \/ health_check_return
    \/ handler_return

SpecPolling == Init /\ [][NextPolling]_vars

\* The next statement of polling thread t.
check_for_new_model_thread(t) ==
    \/ check_for_new_model(t)
    \/ check_for_new_model_versions(t)
    \/ check_for_new_model_compare(t)
    \/ check_for_new_model_load(t)
    \/ check_for_new_model_set_model(t)
    \/ check_for_new_model_set_version(t)
    \/ check_for_new_model_set_metadata(t)
    \/ check_for_new_model_except(t)

\* The service left to its polling thread, with progress: the event loop
\* runs the startup event to its end, and every started polling thread (a
\* daemon thread whose sleep, registry calls and loads all return) goes on to
\* its next statement.
NextLive ==
    \/ Environment
    \/ Loader(MaxThreads)
    \/ Scheduler
    \/ \E r \in SampleRequests : predict(r)
    \/ predict_invoke(SamplePredictions)
    \/ predict_return
    \/ handler_return

SpecLive ==
    /\ Init
    /\ [][NextLive]_vars
    /\ WF_vars(Loader(MaxThreads))
    /\ \A t \in Threads : WF_vars(check_for_new_model_thread(t))

\* ------------------------------------------- compare_models on its own
\* Metrics dicts of a Production run and of an older run: values present
\* under the first key, under the fallback key, or absent; zero, negative and
\* large values.
CurrentMetrics ==
    {a @@ b @@ c :
        a \in {NoMetrics, "mae" :> 1, "mae" :> 3, "test_mae" :> 1, "mae" :> 29999},
        b \in {"rmse" :> 1, "rmse" :> 3},
        c \in {"r2_score" :> 1, "r2_score" :> 3}}

PreviousMetrics ==
    {a @@ b @@ c :
        a \in {NoMetrics, "mae" :> 0, "mae" :> 2, "test_mae" :> 2, "mae" :> 30000},
        b \in {"rmse" :> 0, "rmse" :> 2},
        c \in {NoMetrics, "r2_score" :> (0 - 2), "r2_score" :> 0, "r2_score" :> 2}}

\* Registries with any set of ordinals 1..MaxOrdinal registered (gaps and
\* versions above Production included), Production on one of them or on none.
Registries ==
    {[up |-> u, prod |-> p, versions |-> S,
      metrics |-> [v \in S |-> IF v = p THEN c ELSE q], alias |-> 0] :
        u \in BOOLEAN, S \in SUBSET (1..MaxOrdinal), p \in 0..MaxOrdinal,
        c \in CurrentMetrics, q \in PreviousMetrics}

\* The service after a startup without credentials (local file loaded, or no
\* file), idle, against one of Registries.
InitReport ==
    /\ local_file \in BOOLEAN
    /\ model = IF local_file THEN LocalModel(EventLoop) ELSE NoModel
    /\ model_version = IF local_file THEN LocalLabel(EventLoop) ELSE NoLabel
    /\ model_metadata = IF local_file THEN LocalMetadata(EventLoop) ELSE NoMetadata
    /\ AUTO_RELOAD_ENABLED = FALSE
    /\ mlflow_uri = "http"
    /\ credentials = FALSE
    /\ registry \in {reg \in Registries : reg.prod \in reg.versions \cup {0}}
    /\ pc = "idle"
    /\ frame = NoFrame
    /\ resp = NoResponse
    /\ threads = [t \in Threads |-> OffThread]
    /\ script = NoScript

NextReport ==
    \/ compare_models
    \/ handler_return

SpecReport == InitReport /\ [][NextReport]_vars

\* The service left to its polling thread, with predictions and comparisons.
NextCompare ==
    \/ Environment
    \/ Loader(MaxThreads)
    \/ Scheduler
    \/ \E r \in SampleRequests : predict(r)
    \/ predict_invoke(SamplePredictions)
    \/ predict_return
    \/ compare_models
    \/ handler_return

SpecCompare == Init /\ [][NextCompare]_vars

\* Startup, manual reloads and the polling threads they start, up to
\* MaxThreads of them alive at once.
NextReload ==
    \/ Environment
    \/ Loader(MaxThreads)
    \/ Scheduler
    \/ reload_model
    \/ reload_model_return
    \/ handler_return

SpecReload == Init /\ [][NextReload]_vars

\* A run of scripts/rollback.py --version n [--confirm] against a registry
\* with any set of ordinals 1..MaxOrdinal registered, the alias "Production"
\* on one of them or not set; the service has not started.
InitRollback ==
    /\ model = NoModel
    /\ model_version = NoLabel
    /\ model_metadata = NoMetadata
    /\ AUTO_RELOAD_ENABLED = FALSE
    /\ mlflow_uri = "http"
    /\ credentials = TRUE
    /\ local_file = FALSE
    /\ registry \in {[up |-> u, prod |-> p, versions |-> S,
                       metrics |-> [v \in S |-> NoMetrics], alias |-> a] :
                        u \in BOOLEAN, S \in SUBSET (1..MaxOrdinal),
                        p \in 0..MaxOrdinal, a \in 0..MaxOrdinal}
    /\ registry.prod \in registry.versions \cup {0}
    /\ registry.alias \in registry.versions \cup {0}
    /\ pc = "load_model"
    /\ frame = [NoFrame EXCEPT !.caller = "startup"]
    /\ resp = NoResponse
    /\ threads = [t \in Threads |-> OffThread]
    /\ script \in {[NoScript EXCEPT !.pc = "main", !.version = n, !.confirm = c] :
                      n \in 0..MaxOrdinal, c \in BOOLEAN}

NextRollback ==
    \/ registry_outage
    \/ main
    \/ rollback_to_version
    \/ rollback_to_version_current
    \/ rollback_to_version_set_alias
    \/ rollback_to_version_verify
    \/ rollback_to_version_log
    \/ main_return

SpecRollback == InitRollback /\ [][NextRollback]_vars

\* ------------------------------------------------ one cycle, as a function
\* What one pass of the loop body of check_for_new_model (lines 103-152) makes
\* of the served state s = <<model, model_version, model_metadata>> when it
\* runs alone against registry state reg.
check_for_new_model_cycle(s, reg, t) ==
    IF ~UriHttp \/ s[3].version = 0 THEN s
    ELSE IF ~reg.up \/ reg.prod = 0 THEN s
    ELSE IF ~VersionChanged(reg.prod, s[3].version) THEN s
    ELSE <<RegistryModel(reg.prod, t), VLabel(reg.prod, t), RegistryMetadata(reg.prod, t)>>

\* ============================================================ properties
\* The value without the record of which thread wrote it.
Unsigned(x) == [x EXCEPT !.by = EventLoop]
ContentOf(s) == <<Unsigned(s[1]), Unsigned(s[2]), Unsigned(s[3])>>

\* Label l is the label of artifact m.
Names(l, m) ==
    \/ m.kind = "registry" /\ l.kind = "v" /\ l.ver = m.ver
    \/ m.kind = "local" /\ l.kind = "Local File"

\* Metadata d is the metadata written with label l.
Describes(d, l) ==
    \/ l.kind = "v" /\ d.source = "DagsHub MLflow Registry" /\ d.version = l.ver
         /\ d.run_id = RunIdOf(l.ver)
    \/ l.kind = "Local File" /\ d.source = "local_file" /\ d.version = 0 /\ d.run_id = 0

\* <<m, l, d>> is what one load wrote: the three values carry the same writer
\* and belong together.
ServedModel(m, l, d) ==
    \/ /\ m.kind = "registry" /\ l.kind = "v" /\ Describes(d, l)
       /\ m.by = l.by /\ l.by = d.by
    \/ /\ m.kind = "local" /\ l.kind = "Local File" /\ Describes(d, l)
       /\ m.by = l.by /\ l.by = d.by
    \/ /\ m.kind = "registry" /\ l.kind = "Unknown" /\ d = NoMetadata
       /\ m.by = l.by

\* The claims' reading of a request body: every field present and in range.
InRange(r) ==
    /\ DOMAIN r = {"advertising_spend", "promotions", "day_of_week", "month", "is_weekend"}
    /\ r["advertising_spend"] \in 0..10000
    /\ r["promotions"] \in {0, 1}
    /\ r["is_weekend"] \in {0, 1}
    /\ r["day_of_week"] \in 0..6
    /\ r["month"] \in 1..12

\* C1: every 200 answer of predict carries the version label of the served
\* model whose artifact computed the prediction: artifact and label never come
\* from two different loads with different contents.
C1_PredictionFromOneServedModel ==
    (resp.endpoint = "predict" /\ resp.status = 200) =>
        (resp.used.by = resp.model_version.by \/ Names(resp.model_version, resp.used))

\* C2: whenever a request handler can read the globals, they hold the empty
\* state (no artifact, no label, no metadata) or the three values of one load.
C2_ReadersSeeWholeServedModel ==
    pc \in {"idle", "predict_invoke", "predict_return", "health_check_return"} =>
        \/ model = NoModel /\ model_version = NoLabel /\ model_metadata = NoMetadata
        \/ ServedModel(model, model_version, model_metadata)

\* C3: after startup, a populated slot is never emptied by any step.
C3_PopulatedSlotStaysPopulated ==
    [][(frame.caller # "startup" /\ model.kind # "none") => model'.kind # "none"]_vars

\* C4 as claimed: a polling thread goes on to load an artifact only when the
\* Production ordinal is strictly greater than the served one.
C4_SwapOnlyToGreaterOrdinal ==
    [][\A t \in Threads :
          (threads[t].pc = "compare" /\ threads'[t].pc = "load")
              => threads[t].latest > model_metadata.version]_vars

\* C4 as amended: a polling thread goes on to load an artifact exactly when
\* the Production ordinal differs from the served one (greater or lower); on
\* an equal ordinal the tick ends with the served state untouched; and a
\* thread writes the served state only in the three assignments that follow
\* such a load.
C4_SwapExactlyOnDifferentOrdinal ==
    [][\A t \in Threads :
          /\ (threads[t].pc = "compare" /\ threads'[t] # threads[t]) =>
                IF threads[t].latest = model_metadata.version
                  THEN threads'[t].pc = "sleep" /\ UNCHANGED served
                  ELSE threads'[t].pc = "load" /\ UNCHANGED served
          /\ (threads'[t].pc = "load" /\ threads[t].pc # "load") => threads[t].pc = "compare"
          /\ (threads'[t].pc = "set_model" /\ threads[t].pc # "set_model")
                => threads[t].pc = "load"
          /\ (threads'[t] # threads[t] /\ served' # served)
                => threads[t].pc \in {"set_model", "set_version", "set_metadata"}]_vars

\* C4 witness: a swap to a lower ordinal (a rollback) is in progress.
C4_RollbackSwapInProgress ==
    \E t \in Threads :
        /\ threads[t].pc = "set_version"
        /\ model_metadata.version # 0
        /\ threads[t].latest < model_metadata.version

\* C5: when the artifact load of a tick fails, the thread goes to its except
\* block and on to the next sleep, and none of these steps (nor any step of the
\* tick before the load) changes model, model_version or model_metadata.
C5_FailedLoadKeepsServedModel ==
    [][\A t \in Threads :
          /\ (threads[t].pc = "load" /\ threads'[t] # threads[t]
                /\ ~(registry.up /\ registry.prod # 0))
                => threads'[t].pc = "reload_failed" /\ UNCHANGED served
          /\ (threads[t].pc = "reload_failed" /\ threads'[t] # threads[t])
                => threads'[t].pc = "sleep" /\ UNCHANGED served
          /\ (threads[t].pc \in {"sleep", "query", "compare"} /\ threads'[t] # threads[t])
                => UNCHANGED served]_vars

\* C5 witness: a tick has just failed to load the new version and a registry
\* model is still served.
C5_LoadFailedModelServed ==
    \E t \in Threads :
        /\ threads[t].pc = "reload_failed"
        /\ ServedModel(model, model_version, model_metadata)
        /\ model.kind = "registry"

\* C6: once the event-loop load and every polling thread have finished their
\* assignments, a populated slot holds the result of one of them, not values
\* of two writers that do not belong together.
C6_WritersDoNotInterleave ==
    (/\ pc \notin {"load_model", "load_model_artifact", "load_model_versions",
                   "load_model_set_version", "load_model_set_metadata", "load_local_model",
                   "load_local_model_set_version", "load_local_model_set_metadata"}
     /\ \A t \in Threads : threads[t].pc \notin {"set_model", "set_version", "set_metadata"}
     /\ model.kind # "none")
    => \/ /\ model.by = model_version.by
          /\ model_version.kind # "Unknown" => model_metadata.by = model_version.by
       \/ /\ Names(model_version, model)
          /\ Describes(model_metadata, model_version)

\* C7: a manual reload that ran undisturbed (no registry change, no write of
\* a polling thread meanwhile) leaves the served state as one polling cycle
\* from the same served state and registry state would.
C7_ReloadIsOneCycle ==
    (pc = "reload_model_return" /\ frame.quiet) =>
        ContentOf(served) = ContentOf(check_for_new_model_cycle(frame.before, registry, EventLoop))

\* C8: a body with a missing field or a field out of range is answered 422
\* without the artifact being invoked, and never reaches the handler.
C8_InvalidRequestRejected ==
    /\ (resp.endpoint = "predict" /\ ~InRange(resp.req))
          => (resp.status = 422 /\ ~resp.invoked /\ resp.used = NoModel)
    /\ (resp.endpoint = "predict" /\ resp.status = 422) => ~InRange(resp.req)
    /\ pc \in {"predict_invoke", "predict_return"} => InRange(frame.req)

\* C8 witness: an out-of-range month was rejected while a model is served.
C8_RejectedWhilePopulated ==
    /\ pc = "done" /\ resp.endpoint = "predict" /\ resp.status = 422
    /\ model.kind = "registry"
    /\ DOMAIN resp.req = Fields
    /\ resp.req["month"] = 13

\* C9: a valid request that finds model None is answered 503 without invoking
\* any artifact; a valid request that finds a model goes on to invoke it; 503
\* is answered in no other case.
C9_NotReadyIffSlotEmpty ==
    [][/\ (pc = "idle" /\ resp'.endpoint = "predict" /\ InRange(resp'.req))
             => (model.kind = "none" /\ resp'.status = 503 /\ ~resp'.invoked)
       /\ (pc = "idle" /\ pc' = "predict_invoke")
             => (model.kind # "none" /\ InRange(frame'.req))
       /\ (resp'.endpoint = "predict" /\ resp'.status = 503 /\ resp' # resp)
             => (pc = "idle" /\ model.kind = "none")
       /\ (pc = "predict_invoke" /\ pc' # pc) => model.kind # "none"]_vars

\* C9 witness: a valid request was answered 503 with the slot empty.
C9_ValidRequestNotReady ==
    /\ pc = "done" /\ resp.endpoint = "predict" /\ resp.status = 503
    /\ InRange(resp.req)
    /\ model.kind = "none"

\* C10: health answers 503 exactly when model is None at its check, and
\* otherwise 200 with the global model_version, whatever the registry's state.
C10_HealthReflectsSlot ==
    [][/\ (pc = "idle" /\ resp'.endpoint = "health")
             => (model.kind = "none" /\ resp'.status = 503)
       /\ (pc = "idle" /\ pc' = "health_check_return") => model.kind # "none"
       /\ (pc = "health_check_return" /\ pc' # pc)
             => (/\ resp'.endpoint = "health" /\ resp'.status = 200
                 /\ resp'.model_version = model_version
                 /\ ~resp'.invoked
                 /\ model.kind # "none")]_vars

\* C10 witness: health answered 200 with the served label while the registry
\* is unreachable.
C10_HealthyWhileRegistryDown ==
    /\ pc = "done" /\ resp.endpoint = "health" /\ resp.status = 200
    /\ resp.model_version = model_version
    /\ model_version.kind = "v"
    /\ ~registry.up

\* C11: a 200 answer of predict carries confidence 0.85 when the predicted
\* value lies strictly between 80 and 200 and 0.70 otherwise (80 and 200
\* included); no other confidence is returned with a prediction.
C11_ConfidenceBand ==
    (resp.endpoint = "predict" /\ resp.status = 200) =>
        /\ resp.prediction \in 81..199 => resp.confidence = 85
        /\ (resp.prediction <= 80 \/ resp.prediction >= 200) => resp.confidence = 70
        /\ resp.confidence \in {70, 85}

\* C11 witness: a prediction of exactly 200 was answered with confidence 0.70.
C11_UpperEndLowConfidence ==
    /\ resp.endpoint = "predict" /\ resp.status = 200
    /\ resp.prediction = 200 /\ resp.confidence = 70

\* C12: no step of a predict call changes model, model_version or
\* model_metadata (nor the registry), and when the artifact raises the call
\* is answered 500.
C12_PredictLeavesServedModel ==
    [][/\ ((pc \in {"predict_invoke", "predict_return"} /\ pc' # pc)
             \/ (pc = "idle" /\ (pc' = "predict_invoke" \/ resp'.endpoint = "predict")))
          => UNCHANGED <<served, registry>>
       /\ (pc = "predict_invoke" /\ pc' = "done")
          => (resp'.endpoint = "predict" /\ resp'.status = 500 /\ resp'.invoked)
       /\ (resp'.endpoint = "predict" /\ resp'.status = 500 /\ resp' # resp)
          => pc = "predict_invoke"]_vars

\* C12 witness: the artifact raised, the call was answered 500 and a whole
\* served model is still in place.
C12_PredictorFailedModelServed ==
    /\ pc = "done" /\ resp.endpoint = "predict" /\ resp.status = 500
    /\ ServedModel(model, model_version, model_metadata)

\* C13: with auto-reload on, an http registry URI and a registry version
\* served, if from some point on the registry stays reachable with Production
\* at version v, then from some point on the served label and metadata are
\* those of v; and every 200 answer of predict reports the label served when
\* it returns.
C13_ServedVersionFollowsProduction ==
    /\ \A v \in Versions :
          <>[](/\ AUTO_RELOAD_ENABLED /\ UriHttp /\ model_metadata.version # 0
               /\ registry.up /\ registry.prod = v)
          => <>[](/\ model.kind = "registry"
                  /\ model_version.kind = "v" /\ model_version.ver = v
                  /\ model_metadata.version = v)
    /\ [][(pc = "predict_return" /\ pc' = "done")
             => (resp'.status = 200 /\ resp'.model_version = model_version)]_vars

\* C13 witness: a polling thread has swapped in the Production version and is
\* asleep again; label and metadata are those of Production.
C13_SwappedToProduction ==
    \E t \in Threads :
        /\ threads[t].pc = "sleep"
        /\ registry.up /\ registry.prod # 0
        /\ model_metadata.by = t /\ model_metadata.version = registry.prod
        /\ model_version = VLabel(registry.prod, t)

\* A predict call can take its next step on the event loop.
PredictCanStep ==
    ENABLED ((\E r \in SampleRequests : predict(r))
               \/ predict_invoke(SamplePredictions) \/ predict_return)

\* C14: while a reload cycle (a polling thread's or a manual reload's) is
\* inside a registry query or an artifact load and the slot is populated, a
\* predict call can start or go on, unless the event loop is just finishing
\* another answer.
C14_ReloadDoesNotBlockPredict ==
    (/\ model.kind # "none"
     /\ \/ \E t \in Threads : threads[t].pc \in {"query", "load"}
        \/ frame.caller = "reload" /\ pc \in {"load_model_artifact", "load_model_versions"}
     /\ pc \notin {"health_check_return", "reload_model_return", "done"})
    => PredictCanStep

\* ------------------------------------------------- compare reports
\* The last answer is a compare report on Production version `current`.
Reported == resp.endpoint = "compare" /\ resp.status = 200
HasCurrent == Reported /\ "current_version" \in DOMAIN resp.report
HasPrevious == Reported /\ "previous_version" \in DOMAIN resp.report

\* Registered ordinals below ordinal v.
Below(v) == {u \in registry.versions : u < v}

\* A metric's value in a run's metrics, 0 when absent under both of its names.
ValueIn(metrics, k, alt) ==
    IF k \in DOMAIN metrics THEN metrics[k]
    ELSE IF alt \in DOMAIN metrics THEN metrics[alt] ELSE 0

\* n / d * 100 to two decimals, in hundredths (d # 0): the nearest integer to
\* n * 10000 / d, the even one on a tie.
Percent(n, d) ==
    LET nn == IF d < 0 THEN (0 - n) * 10000 ELSE n * 10000
        dd == IF d < 0 THEN 0 - d ELSE d
        Dist(q) == IF nn - q * dd < 0 THEN q * dd - nn ELSE nn - q * dd
    IN  CHOOSE q \in {nn \div dd, nn \div dd + 1} :
            \/ 2 * Dist(q) < dd
            \/ 2 * Dist(q) = dd /\ q % 2 = 0

\* The metric snapshots behind the last report.
CurrentRun == registry.metrics[resp.report.current_version.version]
PreviousRun == registry.metrics[resp.report.previous_version.version]
Cur(k, alt) == ValueIn(CurrentRun, k, alt)
Prev(k, alt) == ValueIn(PreviousRun, k, alt)

\* C15: in a report, current is the Production version; previous, when
\* reported, is the highest registered ordinal below current; and previous is
\* reported whenever an ordinal below current is registered.
C15_PreviousIsHighestBelowCurrent ==
    /\ HasCurrent => resp.report.current_version.version = registry.prod
    /\ HasPrevious =>
          LET cur == resp.report.current_version.version
              prev == resp.report.previous_version.version
          IN  /\ prev \in Below(cur)
              /\ \A u \in Below(cur) : u <= prev
    /\ (HasCurrent /\ Below(resp.report.current_version.version) # {}) => HasPrevious

\* C15 witness: Production is 3 with 1 and 4 registered and 2 missing;
\* previous is 1.
C15_PreviousAcrossGap ==
    /\ HasPrevious
    /\ registry.versions = {1, 3, 4}
    /\ resp.report.current_version.version = 3
    /\ resp.report.previous_version.version = 1

\* C16: when no registered ordinal lies below Production, the report has
\* has_comparison false, the first-version message and the current version,
\* and no previous_version, deltas or improvement keys.
C16_FirstVersionHasNoDeltas ==
    (HasCurrent /\ Below(resp.report.current_version.version) = {}) =>
        /\ DOMAIN resp.report = {"has_comparison", "message", "current_version"}
        /\ resp.report.has_comparison = FALSE
        /\ resp.report.message = "This is the first model version"

\* C16 witness: Production is the lowest of the registered ordinals and the
\* first-version report was returned.
C16_FirstVersionReported ==
    /\ HasCurrent
    /\ registry.versions = {2, 4} /\ registry.prod = 2
    /\ "message" \in DOMAIN resp.report
    /\ "deltas" \notin DOMAIN resp.report

\* C17: for every metric whose previous value is not zero, the reported delta
\* is (previous - current) / previous * 100 for mae and rmse and
\* (current - previous) / previous * 100 for r2, to two decimals, negative
\* previous values included.
C17_DeltaFormula ==
    HasPrevious =>
        /\ Prev("mae", "test_mae") # 0 =>
              resp.report.deltas.mae_percent =
                  Percent(Prev("mae", "test_mae") - Cur("mae", "test_mae"),
                          Prev("mae", "test_mae"))
        /\ Prev("rmse", "test_rmse") # 0 =>
              resp.report.deltas.rmse_percent =
                  Percent(Prev("rmse", "test_rmse") - Cur("rmse", "test_rmse"),
                          Prev("rmse", "test_rmse"))
        /\ Prev("r2_score", "test_r2") # 0 =>
              resp.report.deltas.r2_percent =
                  Percent(Cur("r2_score", "test_r2") - Prev("r2_score", "test_r2"),
                          Prev("r2_score", "test_r2"))

\* C18: whenever a version below Production is registered and the registry
\* answers, the full report is returned; a metric whose previous value is zero
\* or absent has delta 0, and a metric with a positive previous value has the
\* delta of its own values whatever the other metrics are.
C18_ZeroPreviousGivesZeroDelta ==
    /\ (Reported /\ registry.up /\ registry.prod # 0 /\ Below(registry.prod) # {}) =>
          /\ HasPrevious
          /\ DOMAIN resp.report = {"has_comparison", "current_version",
                                   "previous_version", "deltas", "improvement"}
    /\ HasPrevious =>
          /\ Prev("mae", "test_mae") = 0 => resp.report.deltas.mae_percent = 0
          /\ Prev("rmse", "test_rmse") = 0 => resp.report.deltas.rmse_percent = 0
          /\ Prev("r2_score", "test_r2") = 0 => resp.report.deltas.r2_percent = 0
          /\ Prev("mae", "test_mae") > 0 =>
                resp.report.deltas.mae_percent =
                    Percent(Prev("mae", "test_mae") - Cur("mae", "test_mae"),
                            Prev("mae", "test_mae"))
          /\ Prev("rmse", "test_rmse") > 0 =>
                resp.report.deltas.rmse_percent =
                    Percent(Prev("rmse", "test_rmse") - Cur("rmse", "test_rmse"),
                            Prev("rmse", "test_rmse"))
          /\ Prev("r2_score", "test_r2") > 0 =>
                resp.report.deltas.r2_percent =
                    Percent(Cur("r2_score", "test_r2") - Prev("r2_score", "test_r2"),
                            Prev("r2_score", "test_r2"))

\* C18 witness: the previous run has no mae at all and an rmse of 2; the
\* report has mae delta 0 and an rmse delta of 50%.
C18_AbsentPreviousMetric ==
    /\ HasPrevious
    /\ DOMAIN PreviousRun \cap {"mae", "test_mae"} = {}
    /\ resp.report.deltas.mae_percent = 0
    /\ resp.report.deltas.rmse_percent = 5000

\* C19: in every report with a previous version, each verdict is the sign of
\* that metric's reported delta: improved above 0, degraded below 0,
\* unchanged at 0.
C19_VerdictIsSignOfReportedDelta ==
    HasPrevious =>
        LET Verdict(d) == IF d > 0 THEN "improved"
                          ELSE IF d < 0 THEN "degraded" ELSE "unchanged"
        IN  /\ resp.report.improvement.mae = Verdict(resp.report.deltas.mae_percent)
            /\ resp.report.improvement.rmse = Verdict(resp.report.deltas.rmse_percent)
            /\ resp.report.improvement.r2 = Verdict(resp.report.deltas.r2_percent)

\* C20: a compare call changes neither the served state nor the registry nor
\* any polling thread, and its answer is determined by the registry state at
\* the call (and by the slot being populated): whatever was served, predicted
\* or polled before, two calls that find the same registry state return the
\* same report.
C20_CompareReadsRegistryOnly ==
    [][(pc = "idle" /\ resp'.endpoint = "compare") =>
          /\ UNCHANGED <<served, registry, threads>>
          /\ resp'.status = (IF model.kind = "none" THEN 503 ELSE 200)
          /\ (model.kind # "none" /\ registry.up)
                => resp'.report = compare_models_report(registry)
          /\ (model.kind # "none" /\ ~registry.up)
                => (DOMAIN resp'.report = {"error", "has_comparison"}
                    /\ resp'.report.has_comparison = FALSE)]_vars

\* C20 witness: a full report was returned while a polling thread is in the
\* middle of a tick and the served version is not the Production version.
C20_ReportDuringTick ==
    /\ pc = "done" /\ HasPrevious
    /\ \E t \in Threads : threads[t].pc = "compare"
    /\ model_metadata.version # 0
    /\ model_metadata.version # registry.prod

\* C28: at most one check_for_new_model thread is alive at any time.
C28_AtMostOnePollingThread ==
    Cardinality({t \in Threads : threads[t].pc # "off"}) <= 1

\* C21 (as the code has it): the "current" side of every compare report is
\* the version in the registry's Production stage at the time of the call,
\* whatever the service is serving, and the "previous" side, when present, is
\* the highest registered ordinal below it.
C21_CurrentIsRegistryProduction ==
    [][(pc = "idle" /\ resp'.endpoint = "compare"
          /\ "current_version" \in DOMAIN resp'.report) =>
          /\ resp'.report.current_version.version = registry.prod
          /\ "previous_version" \in DOMAIN resp'.report =>
                /\ resp'.report.previous_version.version \in registry.versions
                /\ resp'.report.previous_version.version < registry.prod
                /\ \A v \in registry.versions :
                      v < registry.prod => v <= resp'.report.previous_version.version]_vars

\* C21 witness: a report was returned to a service serving the local file,
\* which has no version ordinal, and its current side is a registry version.
C21_ReportWhileLocalFileServed ==
    /\ pc = "done" /\ HasCurrent
    /\ model.kind = "local"
    /\ model_metadata.version = 0
    /\ resp.report.current_version.version # 0

\* C21 as stated: the "current" side of every compare report is the version
\* the service is serving at the time of the call.
C21_CurrentIsServedVersion ==
    [][(pc = "idle" /\ resp'.endpoint = "compare"
          /\ "current_version" \in DOMAIN resp'.report) =>
          resp'.report.current_version.version = model_metadata.version]_vars

\* Positions of the event-loop thread inside load_model / load_local_model.
LoaderPcs ==
    {"load_model", "load_model_artifact", "load_model_versions", "load_model_set_version",
     "load_model_set_metadata", "load_local_model", "load_local_model_set_version",
     "load_local_model_set_metadata", "load_model_start_thread"}

\* The startup event has returned.
StartupOver == pc \notin LoaderPcs

\* What load_local_model leaves when the file exists.
LocalServed == <<LocalModel(EventLoop), LocalLabel(EventLoop), LocalMetadata(EventLoop)>>

\* C22: a registry load that fails at startup goes on to the local file
\* without an error response; with the file present the slot holds the local
\* artifact, label "Local File" and source local_file when startup returns;
\* from then on health answers 200 and no poll tick leaves its sleep, calls the
\* registry or changes the served state, whatever the registry does.
C22_LocalFallbackStaysServed ==
    [][/\ (frame.caller = "startup" /\ ~registry.up /\ pc' # pc
             /\ pc \in {"load_model_artifact", "load_model_versions"})
             => (pc' = "load_local_model" /\ resp' = resp)
       /\ (pc = "load_local_model" /\ local_file /\ pc' # pc)
             => model' = LocalModel(EventLoop)
       /\ (StartupOver /\ model.kind = "local")
             => /\ served = LocalServed
                /\ served' = served
                /\ \A t \in Threads : threads'[t].pc \in {"off", "sleep"}
                /\ (resp'.endpoint = "health" /\ resp' # resp) => resp'.status = 200]_vars

\* C22 witness: the service was configured for the registry (URI, credentials,
\* auto-reload), serves the local file with its polling thread asleep, health
\* has answered 200, and the registry is reachable with a Production version.
C22_LocalServedRegistryBack ==
    /\ credentials /\ UriHttp /\ AUTO_RELOAD_ENABLED
    /\ served = LocalServed
    /\ \E t \in Threads : threads[t].pc = "sleep"
    /\ pc = "done" /\ resp.endpoint = "health" /\ resp.status = 200
    /\ registry.up /\ registry.prod # 0

\* C23: when the local file is missing load_local_model leaves model None;
\* a startup that ends with model None leaves the whole served state empty and
\* starts no polling thread; from then on the slot stays empty, health answers
\* 503 and every valid predict request is answered 503.
C23_NoArtifactStaysNotReady ==
    [][/\ (pc = "load_local_model" /\ ~local_file /\ pc' # pc) => model' = NoModel
       /\ (StartupOver /\ model.kind = "none")
             => /\ served = <<NoModel, NoLabel, NoMetadata>>
                /\ served' = served
                /\ \A t \in Threads : threads[t].pc = "off" /\ threads'[t].pc = "off"
                /\ (resp'.endpoint = "health" /\ resp' # resp) => resp'.status = 503
                /\ (resp'.endpoint = "predict" /\ resp' # resp /\ InRange(resp'.req))
                      => (resp'.status = 503 /\ ~resp'.invoked)
                /\ pc' \notin {"predict_invoke", "health_check_return"}]_vars

\* C23 witness: the service was configured for the registry, startup found
\* neither source, health has answered 503 and the registry now is reachable
\* with a Production version.
C23_NotReadyRegistryBack ==
    /\ credentials /\ UriHttp /\ AUTO_RELOAD_ENABLED /\ ~local_file
    /\ model = NoModel
    /\ pc = "done" /\ resp.endpoint = "health" /\ resp.status = 503
    /\ registry.up /\ registry.prod # 0

\* C26: a tick that starts while the tracking URI is unset or not an http URL,
\* or while the served metadata names no registry version, ends where it
\* started: the thread is asleep again with no registry call made, nothing
\* served has changed and no response is affected.
C26_SkippedTickIsNoOp ==
    [][\A t \in Threads :
          (threads[t].pc = "sleep" /\ (~UriHttp \/ model_metadata.version = 0))
             => (threads'[t] = Asleep
                 /\ (threads' # threads => served' = served /\ resp' = resp))]_vars

\* C26 witness: a thread sleeps between ticks while a registry version is
\* served, another version is in Production in a reachable registry, and the
\* tracking URI is a file path.
C26_AsleepWithFileUri ==
    /\ \E t \in Threads : threads[t].pc = "sleep"
    /\ mlflow_uri = "file"
    /\ ServedModel(model, model_version, model_metadata)
    /\ model_metadata.version # 0
    /\ registry.up /\ registry.prod # 0
    /\ registry.prod # model_metadata.version

\* C24: a startup that finds the registry reachable with no version in the
\* Production stage ends with the slot empty: it does not load the local file
\* in place of the Production model and does not serve a model under the
\* label "Unknown".
C24_NoProductionStartsNotReady ==
    [][(frame.caller = "startup" /\ credentials /\ UriSet /\ pc' # pc
          /\ registry.up /\ registry.prod = 0)
          => /\ pc = "load_local_model" => model'.kind = "none"
             /\ pc = "load_model_versions" => model_version'.kind # "Unknown"]_vars

\* C25: the answer of GET /model/reload never carries a version label while
\* model is None, and the label it carries names the artifact in the slot.
C25_ReloadReportsServedVersion ==
    (pc = "done" /\ resp.endpoint = "reload") =>
        /\ model.kind = "none" => resp.model_version.kind = "none"
        /\ model.kind # "none" => Names(resp.model_version, model)

\* C29: once no writer is between its assignments and artifact, label and
\* metadata come from the same load of the registry, the artifact is the one
\* of the version that label and metadata name.
C29_ArtifactOfRecordedVersion ==
    (/\ pc \notin LoaderPcs
     /\ \A t \in Threads : threads[t].pc \notin {"set_model", "set_version", "set_metadata"}
     /\ model.kind = "registry" /\ model_version.kind = "v"
     /\ model.by = model_version.by /\ model_version.by = model_metadata.by)
        => (model.ver = model_version.ver /\ RunIdOf(model.ver) = model_metadata.run_id)

\* A tick of thread t has failed and its except block has not run yet.
TickFailed(t) == threads[t].pc \in {"check_error", "reload_failed"}

\* C27: a tick that fails (the registry query raises, no version is in
\* Production, the artifact load raises) changes neither the served state nor
\* any response or handler position; the thread never ends; and after every
\* failure, however many came before, the thread sleeps and starts its next
\* tick.
C27_TickFailureAbsorbed ==
    /\ [][\A t \in Threads :
            /\ threads[t].pc # "off" => threads'[t].pc # "off"
            /\ (TickFailed(t)' /\ ~TickFailed(t))
                  => (served' = served /\ resp' = resp /\ pc' = pc)
            /\ (TickFailed(t) /\ threads'[t] # threads[t])
                  => (threads'[t] = Asleep
                      /\ served' = served /\ resp' = resp /\ pc' = pc)
            /\ (threads[t].pc = "query" /\ registry.up /\ registry.prod = 0
                  /\ threads'[t] # threads[t])
                  => (threads'[t] = Asleep
                      /\ served' = served /\ resp' = resp /\ pc' = pc)]_vars
    /\ \A t \in Threads : TickFailed(t) ~> threads[t].pc = "sleep"
    /\ \A t \in Threads : TickFailed(t) ~> threads[t].pc = "query"

\* C27 witness: an artifact load has just failed in a tick while a predict
\* call is running on the whole served model.
C27_LoadFailedDuringPredict ==
    /\ \E t \in Threads : threads[t].pc = "reload_failed"
    /\ pc = "predict_return"
    /\ ServedModel(model, model_version, model_metadata)
    /\ model.kind = "registry"

\* C30: the alias "Production" changes only in step 3 of a confirmed run, and
\* only to the target version, which is registered; a target that is not
\* registered makes rollback_to_version return False with the registry as it
\* was; when rollback_to_version has returned True the alias is on the target
\* version; without --confirm the script exits with 1 and the registry is
\* never changed.
C30_RollbackMovesAliasToExistingTarget ==
    /\ [](script.result = "True" => registry.alias = script.version)
    /\ [](script.exit = 0 => (script.confirm /\ registry.alias = script.version))
    /\ []((script.pc = "exited" /\ ~script.confirm) => script.exit = 1)
    /\ [][/\ registry'.alias # registry.alias
                => (/\ script.pc = "set_registered_model_alias"
                    /\ script.confirm
                    /\ script.version \in registry.versions
                    /\ registry'.alias = script.version)
          /\ (script.pc = "get_model_version" /\ script' # script
                /\ script.version \notin registry.versions)
                => (script'.result = "False" /\ registry' = registry)
          /\ (script.pc = "main" /\ script' # script /\ ~script.confirm)
                => (script'.pc = "exited" /\ script'.exit = 1 /\ registry' = registry)]_vars

\* C30 witness: a confirmed run has returned True and exited with 0 after
\* moving the alias from another version to the target.
C30_AliasMovedToTarget ==
    /\ script.pc = "exited" /\ script.exit = 0 /\ script.result = "True"
    /\ script.confirm
    /\ script.current # 0 /\ script.current # script.version
    /\ registry.alias = script.version

====
